---- MODULE Spec2Model ----
(***************************************************************************)
(* LearningPlatform: the user_progress / profiles schema with its row      *)
(* level security policies and signup trigger (the SQL migration), and the *)
(* CourseDetail page that reads and writes progress records through it.    *)
(***************************************************************************)
EXTENDS Integers, Sequences, FiniteSets, TLC

(* ---------- bounds of the model ---------- *)
MaxRows == 2        \* user_progress rows the store may hold
MaxTime == 4        \* the clock runs 0..MaxTime; it advances with every click
MaxInFlight == 2    \* async actions one CourseDetail page has in flight
MaxToggles == 2     \* clicks in the runs of lesson toggles alone
MaxCalcLessons == 40 \* lessons of a course in the calculateProgress check

(* ---------- values ---------- *)
NULL == "null"      \* SQL NULL / JS null for identifiers and text
NoTime == -1        \* SQL NULL / JS null for a timestamptz

Users == {"A", "B"}                 \* identities that may sign up
Emails == [A |-> "a@x", B |-> "b@x"]
Names == {NULL, "Ann"}              \* raw_user_meta_data->>'full_name' at sign-up
PageUsers == {"A"}                  \* identities that open the CourseDetail page
Course1 == "c1"
LessonIds == {"l1", "l2"}

\* courses table: one course
courses_table == {[id |-> Course1]}
\* lessons table: two lessons of the course, order_number 1 and 2
lessons_table == {[id |-> "l1", course_id |-> Course1, order_number |-> 1],
                  [id |-> "l2", course_id |-> Course1, order_number |-> 2]}

VARIABLES
    now,            \* the clock (now() / new Date()): the number of clicks so far
    auth_users,     \* auth.users: set of [id, email, full_name]
    profiles,       \* profiles table: set of [id, email, full_name]
    user_progress,  \* user_progress table: set of rows
    course,         \* useState course, per page user
    lessons,        \* useState lessons, per page user
    progress,       \* useState progress, per page user
    loading,        \* useState loading, per page user
    error,          \* useState error, per page user
    mounted,        \* whether the page user has the CourseDetail page open
    inflight,       \* per page user: the async actions in flight
    last,           \* the last request the store served and its response
    hist,           \* per page user: history of the last two serialized actions
    calc            \* input and output of the calculateProgress check

vars == <<now, auth_users, profiles, user_progress, course, lessons, progress,
          loading, error, mounted, inflight, last, hist, calc>>

storeVars == <<auth_users, profiles, user_progress>>
pageVars == <<course, lessons, progress, loading, error, mounted>>

(* ---------- helpers ---------- *)
Range(s) == {s[i] : i \in 1..Len(s)}

RemoveAt(s, i) == [j \in 1..(Len(s) - 1) |-> IF j < i THEN s[j] ELSE s[j + 1]]

\* all orders in which the rows of a set may come back from a SELECT without ORDER BY
Orderings(S) ==
    {q \in [1..Cardinality(S) -> S] : \A i, j \in 1..Cardinality(S) : i # j => q[i] # q[j]}

RECURSIVE SortByOrder(_)
\* ORDER BY order_number
SortByOrder(S) ==
    IF S = {} THEN <<>>
    ELSE LET m == CHOOSE x \in S : \A y \in S : x.order_number <= y.order_number
         IN <<m>> \o SortByOrder(S \ {m})

(* ---------- the store: row level security policies ---------- *)
\* a caller is authenticated when it carries an identity (auth.uid() is not NULL)
Callers == {u.id : u \in auth_users} \cup {NULL}

\* "Users can view own profile": FOR SELECT TO authenticated USING (auth.uid() = id)
profiles_select_policy(uid, row) == uid # NULL /\ uid = row.id

\* "Users can update own profile": USING (auth.uid() = id)
profiles_update_using(uid, row) == uid # NULL /\ uid = row.id

\* "Users can update own profile": WITH CHECK (auth.uid() = id)
profiles_update_check(uid, row) == uid # NULL /\ uid = row.id

\* "Users can insert own profile": WITH CHECK (auth.uid() = id)
profiles_insert_policy(uid, row) == uid # NULL /\ uid = row.id

\* the SELECT policy with USING (true), as on courses and lessons
progress_select_policy_any(uid, row) == uid # NULL

\* "Users can view own progress": FOR SELECT TO authenticated USING (auth.uid() = user_id)
progress_select_policy(uid, row) == uid # NULL /\ uid = row.user_id

\* "Users can insert own progress": WITH CHECK (auth.uid() = user_id)
progress_insert_policy(uid, row) == uid # NULL /\ uid = row.user_id

\* the UPDATE policy with USING (true)
progress_update_using_any(uid, row) == uid # NULL

\* "Users can update own progress": USING (auth.uid() = user_id)
progress_update_using(uid, row) == uid # NULL /\ uid = row.user_id

\* "Users can update own progress": WITH CHECK (auth.uid() = user_id)
progress_update_check(uid, row) == uid # NULL /\ uid = row.user_id

\* user_progress has row level security enabled and no DELETE policy
progress_delete_policy(uid, row) == FALSE

(* ---------- the store: tables ---------- *)
\* the columns of user_progress with UNIQUE (user_id, course_id, lesson_id) added
progress_constraints_unique(row) ==
    /\ row.user_id \in {u.id : u \in auth_users}
    /\ row.course_id \in {c.id : c \in courses_table}
    /\ row.lesson_id = NULL \/ row.lesson_id \in {l.id : l \in lessons_table}
    /\ \A r \in user_progress :
         r.id # row.id => <<r.user_id, r.course_id, r.lesson_id>>
                            # <<row.user_id, row.course_id, row.lesson_id>>

\* the columns of user_progress: NOT NULL and the three foreign keys
progress_constraints(row) ==
    /\ row.user_id \in {u.id : u \in auth_users}
    /\ row.course_id \in {c.id : c \in courses_table}
    /\ row.lesson_id = NULL \/ row.lesson_id \in {l.id : l \in lessons_table}

\* the columns of profiles: id is the primary key and references auth.users, email NOT NULL
profiles_constraints(row) ==
    /\ row.id \in {u.id : u \in auth_users}
    /\ row.id \notin {p.id : p \in profiles}
    /\ row.email # NULL

\* SELECT * FROM user_progress as seen by caller uid: the set of visible rows
select_progress(uid) == {r \in user_progress : progress_select_policy(uid, r)}

\* SELECT * FROM profiles as seen by caller uid
select_profiles(uid) == {p \in profiles : profiles_select_policy(uid, p)}

\* INSERT INTO user_progress by caller uid: accepted when the policy and the constraints allow
insert_progress_ok(uid, row) == progress_insert_policy(uid, row) /\ progress_constraints(row)

\* the row INSERT stores: id generated, completed DEFAULT false, created_at/updated_at DEFAULT now()
new_progress_row(user_id, course_id, lesson_id, completed, completed_at) ==
    [id |-> Cardinality(user_progress) + 1, user_id |-> user_id, course_id |-> course_id,
     lesson_id |-> lesson_id, completed |-> completed, completed_at |-> completed_at,
     created_at |-> now, updated_at |-> now]

\* UPDATE user_progress ... WHERE id = rid by caller uid: the rows it reaches
update_progress_target(uid, rid) ==
    {r \in user_progress : r.id = rid /\ progress_update_using(uid, r)}

\* an UPDATE whose SET leaves completed_at out
ApplyPatch_keepstamp(row, patch) ==
    [f \in DOMAIN row |-> IF f \in DOMAIN patch \ {"completed_at"} THEN patch[f] ELSE row[f]]

\* SET of an UPDATE: the columns the patch names take its values
ApplyPatch(row, patch) ==
    [f \in DOMAIN row |-> IF f \in DOMAIN patch THEN patch[f] ELSE row[f]]

\* INSERT INTO user_progress: the response and the table afterwards
store_insert(uid, row) ==
    IF insert_progress_ok(uid, row)
    THEN [ok |-> TRUE, table |-> user_progress \cup {row}]
    ELSE [ok |-> FALSE, table |-> user_progress]

\* UPDATE user_progress SET patch WHERE id = rid: rows the USING clause hides are
\* skipped without an error, a new row failing WITH CHECK or a constraint is an error
store_update(uid, rid, patch) ==
    LET T == update_progress_target(uid, rid)
        new(r) == ApplyPatch(r, patch)
    IN IF \A r \in T : progress_update_check(uid, new(r)) /\ progress_constraints(new(r))
       THEN [ok |-> TRUE, table |-> (user_progress \ T) \cup {new(r) : r \in T}]
       ELSE [ok |-> FALSE, table |-> user_progress]

\* DELETE FROM user_progress WHERE id = rid: rows no DELETE policy admits are skipped
store_delete(uid, rid) ==
    LET T == {r \in user_progress : r.id = rid /\ progress_delete_policy(uid, r)}
    IN [ok |-> TRUE, table |-> user_progress \ T]

\* profiles has row level security enabled and no DELETE policy
profiles_delete_policy(uid, row) == FALSE

\* INSERT INTO profiles by caller uid
profile_insert(uid, row) ==
    IF profiles_insert_policy(uid, row) /\ profiles_constraints(row)
    THEN [ok |-> TRUE, table |-> profiles \cup {row}]
    ELSE [ok |-> FALSE, table |-> profiles]

\* UPDATE profiles SET patch WHERE id = pid by caller uid
profile_update(uid, pid, patch) ==
    LET T == {p \in profiles : p.id = pid /\ profiles_update_using(uid, p)}
        new(p) == ApplyPatch(p, patch)
    IN IF \A p \in T : /\ profiles_update_check(uid, new(p))
                        /\ new(p).id \in {u.id : u \in auth_users}
                        /\ new(p).id \notin {q.id : q \in profiles \ T}
                        /\ new(p).email # NULL
       THEN [ok |-> TRUE, table |-> (profiles \ T) \cup {new(p) : p \in T}]
       ELSE [ok |-> FALSE, table |-> profiles]

\* DELETE FROM profiles WHERE id = pid by caller uid
profile_delete(uid, pid) ==
    LET T == {p \in profiles : p.id = pid /\ profiles_delete_policy(uid, p)}
    IN [ok |-> TRUE, table |-> profiles \ T]

(* ---------- the store: signup trigger ---------- *)
\* the trigger without COALESCE
handle_new_user_raw(new) == [id |-> new.id, email |-> new.email, full_name |-> new.full_name]

\* handle_new_user(): the profile row the trigger inserts for a new auth.users row
handle_new_user(new) ==
    [id |-> new.id, email |-> new.email,
     full_name |-> IF new.full_name # NULL THEN new.full_name ELSE ""]

(* ---------- CourseDetail: derived state ---------- *)
\* progress.some((p) => p.lesson_id === lessonId && p.completed)
isLessonCompleted(prog, lessonId) ==
    \E i \in 1..Len(prog) : prog[i].lesson_id = lessonId /\ prog[i].completed

\* progress.some((p) => p.lesson_id === null && p.completed)
isCourseCompleted(prog) ==
    \E i \in 1..Len(prog) : prog[i].lesson_id = NULL /\ prog[i].completed

(* (completedLessons / lessons.length) * 100 is IEEE-754 double arithmetic: a double is *)
(* its significand, bits <<b1, ..., bn>> most significant first, and the weight w of  *)
(* the last bit as a power of two; its value is (b1...bn) * 2^w.                      *)
DoubleBits == 53
DoubleZero == [bits |-> <<>>, w |-> 0]

\* the significand plus one unit in the last place
Inc(bits) ==
    LET Z == {i \in 1..Len(bits) : bits[i] = 0}
    IN IF Z = {} THEN <<1>> \o [i \in 1..Len(bits) |-> 0]
       ELSE LET j == CHOOSE i \in Z : \A k \in Z : k <= i
            IN [i \in 1..Len(bits) |-> IF i < j THEN bits[i] ELSE IF i = j THEN 1 ELSE 0]

\* round a DoubleBits-bit significand up, renormalising when it carries out
RoundUp(bits, w) ==
    LET t == Inc(bits)
    IN IF Len(t) > DoubleBits THEN [bits |-> SubSeq(t, 1, DoubleBits), w |-> w + 1]
       ELSE [bits |-> t, w |-> w]

RECURSIVE LeadingZeros(_, _)
\* the number of zero bits of num / den before its first one bit, from weight 2^0 on
LeadingZeros(num, den) == IF num >= den THEN 0 ELSE 1 + LeadingZeros(2 * num, den)

RECURSIVE Pow2(_)
Pow2(n) == IF n = 0 THEN 1 ELSE 2 * Pow2(n - 1)

RECURSIVE DivBits(_, _, _)
\* long division: the next n bits of r / den (r < 2 * den) and the remainder left
DivBits(r, den, n) ==
    IF n = 1
    THEN LET b == IF r >= den THEN 1 ELSE 0 IN [bits |-> <<b>>, rem |-> r - b * den]
    ELSE LET hi == DivBits(r, den, n \div 2)
             lo == DivBits(2 * hi.rem, den, n - n \div 2)
         IN [bits |-> hi.bits \o lo.bits, rem |-> lo.rem]

\* the double num / den (0 <= num <= den, den > 0), rounded to nearest, ties to even
DoubleDiv(num, den) ==
    IF num = 0 THEN DoubleZero
    ELSE LET z == LeadingZeros(num, den)
             d == DivBits(num * Pow2(z), den, DoubleBits)
             w == 1 - z - DoubleBits
         IN IF 2 * d.rem > den \/ (2 * d.rem = den /\ d.bits[DoubleBits] = 1)
            THEN RoundUp(d.bits, w)
            ELSE [bits |-> d.bits, w |-> w]

RECURSIVE BitsOf(_)
\* a small non-negative integer in binary, most significant bit first
BitsOf(n) == IF n = 0 THEN <<>> ELSE Append(BitsOf(n \div 2), n % 2)

RECURSIVE MulBits(_, _, _, _, _)
\* bits[from..to] * k + carry: the low to - from + 1 bits of the result and the carry out
MulBits(bits, from, to, k, carry) ==
    IF from = to
    THEN LET v == bits[to] * k + carry IN [bits |-> <<v % 2>>, carry |-> v \div 2]
    ELSE LET m == (from + to) \div 2
             lo == MulBits(bits, m + 1, to, k, carry)
         IN IF lo.carry < 0 THEN lo    \* never: the low half is worked out first
            ELSE LET hi == MulBits(bits, from, m, k, lo.carry)
                 IN [bits |-> hi.bits \o lo.bits, carry |-> hi.carry]

\* the double x * k (k a small integer), rounded to nearest, ties to even
DoubleTimes(x, k) ==
    LET m == IF Len(x.bits) = 0 THEN [bits |-> <<>>, carry |-> 0]
             ELSE MulBits(x.bits, 1, Len(x.bits), k, 0)
        p == BitsOf(m.carry) \o m.bits
        n == Len(p)
    IN IF n <= DoubleBits THEN [bits |-> p, w |-> x.w]
       ELSE LET top == SubSeq(p, 1, DoubleBits)
                guard == p[DoubleBits + 1]
                sticky == \E i \in (DoubleBits + 2)..n : p[i] = 1
            IN IF guard = 1 /\ (sticky \/ top[DoubleBits] = 1)
               THEN RoundUp(top, x.w + (n - DoubleBits))
               ELSE [bits |-> top, w |-> x.w + (n - DoubleBits)]

RECURSIVE BitsValue(_)
\* the integer a bit string denotes
BitsValue(bits) ==
    IF Len(bits) = 0 THEN 0
    ELSE 2 * BitsValue(SubSeq(bits, 1, Len(bits) - 1)) + bits[Len(bits)]

\* Math.round of a double 0 <= x < 2^DoubleBits: the nearest integer, a tie going up
MathRound(x) ==
    LET n == Len(x.bits)
        ni == n + x.w       \* bits of the integer part
        half == IF ni + 1 \in 1..n THEN x.bits[ni + 1] ELSE 0
    IN BitsValue(SubSeq(x.bits, 1, ni)) + half

\* lessons.filter(...).length, then Math.round((completedLessons / lessons.length) * 100)
calculateProgress(les, prog) ==
    IF Len(les) = 0 THEN 0
    ELSE LET completedLessons ==
                 Len(SelectSeq(les, LAMBDA lesson : isLessonCompleted(prog, lesson.id)))
         IN MathRound(DoubleTimes(DoubleDiv(completedLessons, Len(les)), 100))

\* progress.find((p) => p.lesson_id === lessonId): the index of the first match, 0 when
\* there is none (find returns undefined)
FindProgress(prog, lessonId) ==
    LET M == {i \in 1..Len(prog) : prog[i].lesson_id = lessonId}
    IN IF M = {} THEN 0 ELSE CHOOSE i \in M : \A j \in M : i <= j

(* ---------- CourseDetail: async actions in flight ---------- *)
NoCourse == [id |-> NULL]    \* course === null
NoReq == [op |-> "none"]
NoRes == [fetched |-> FALSE]

LoadTask == [kind |-> "load", lesson |-> NULL, pc |-> "fetch", req |-> NoReq, res |-> NoRes]

HistNone == [stage |-> 0, kind |-> "none", lesson |-> NULL, before |-> FALSE,
             w1 |-> FALSE, w2 |-> FALSE]

\* an action starts: it is the first or the second of a serialized pair only when
\* nothing else of this page is in flight
HistStart(u, kind, lesson, flag) ==
    IF inflight[u] # <<>> THEN HistNone
    ELSE IF hist[u].stage = 2 /\ hist[u].kind = kind /\ hist[u].lesson = lesson
         THEN [hist[u] EXCEPT !.stage = 3]
         ELSE [stage |-> 1, kind |-> kind, lesson |-> lesson, before |-> flag,
               w1 |-> FALSE, w2 |-> FALSE]

HistWrite(u, ok) ==
    IF hist[u].stage = 1 THEN [hist[u] EXCEPT !.w1 = ok]
    ELSE IF hist[u].stage = 3 THEN [hist[u] EXCEPT !.w2 = ok]
    ELSE hist[u]

HistFinish(h) ==
    IF h.stage \in {1, 3} THEN [h EXCEPT !.stage = h.stage + 1] ELSE h

\* the page shows the lesson list and the buttons: not loading, no error, a course
Rendered(u) == mounted[u] /\ ~loading[u] /\ error[u] = "" /\ course[u] # NoCourse

\* what the store answered to a request
Response(op, caller, ok, rows, profs) ==
    [op |-> op, caller |-> caller, ok |-> ok, rows |-> rows, profs |-> profs]

NoLast == [op |-> "none", caller |-> NULL, ok |-> TRUE, rows |-> {}, profs |-> {}]
CalcIdle == [phase |-> "idle", lessons |-> <<>>, progress |-> <<>>, result |-> 0]
LoadError == "Failed to load course details"

\* the courseId prop of the page
courseId(u) == Course1

InitBase ==
    /\ now = 0
    /\ auth_users = {}
    /\ profiles = {}
    /\ user_progress = {}
    /\ course = [u \in PageUsers |-> NoCourse]
    /\ lessons = [u \in PageUsers |-> <<>>]
    /\ progress = [u \in PageUsers |-> <<>>]
    /\ loading = [u \in PageUsers |-> TRUE]
    /\ error = [u \in PageUsers |-> ""]
    /\ mounted = [u \in PageUsers |-> FALSE]
    /\ inflight = [u \in PageUsers |-> <<>>]
    /\ last = NoLast
    /\ hist = [u \in PageUsers |-> HistNone]

Init == InitBase /\ calc = CalcIdle

\* sign-up: INSERT INTO auth.users, then the AFTER INSERT trigger on_auth_user_created
\* inserts the profile in the same transaction (SECURITY DEFINER: no policy applies)
Register(u, name) ==
    /\ u \notin {x.id : x \in auth_users}
    /\ LET new == [id |-> u, email |-> Emails[u], full_name |-> name]
           prof == handle_new_user(new)
       IN /\ prof.id \notin {p.id : p \in profiles}
          /\ prof.email # NULL
          /\ auth_users' = auth_users \cup {new}
          /\ profiles' = profiles \cup {prof}
    /\ UNCHANGED <<now, user_progress, pageVars, inflight, last, hist, calc>>

\* a signed-in user opens the course: the page mounts and useEffect calls loadCourseData
OpenCourse(u) ==
    /\ u \in {x.id : x \in auth_users}
    /\ ~mounted[u]
    /\ mounted' = [mounted EXCEPT ![u] = TRUE]
    /\ inflight' = [inflight EXCEPT ![u] = Append(@, LoadTask)]
    /\ UNCHANGED <<now, storeVars, course, lessons, progress, loading, error, last, hist, calc>>

\* which of the three selects of a load fails, if any
FetchOutcomes == {"none", "course", "lessons", "progress"}

\* loadCourseData, the three selects of Promise.all as the store serves them; each may
\* fail, and the progress rows come back in any order (no ORDER BY)
LoadFetch(u, i) ==
    /\ i \in 1..Len(inflight[u])
    /\ inflight[u][i].pc = "fetch"
    /\ \E failed \in FetchOutcomes :
         \E rows \in IF failed = "none"
                     THEN Orderings({r \in select_progress(u) :
                                       r.user_id = u /\ r.course_id = courseId(u)})
                     ELSE {<<>>} :
           LET ce == failed = "course"
               le == failed = "lessons"
               pe == failed = "progress"
               c == {x \in courses_table : x.id = courseId(u)}
               res == [fetched |-> TRUE,
                       courseError |-> ce, lessonsError |-> le, progressError |-> pe,
                       courseData |-> IF ce \/ c = {} THEN NoCourse ELSE CHOOSE x \in c : TRUE,
                       lessonsData |-> IF le THEN <<>>
                                       ELSE SortByOrder({l \in lessons_table :
                                                          l.course_id = courseId(u)}),
                       progressData |-> IF ce \/ le \/ pe THEN <<>> ELSE rows]
           IN inflight' = [inflight EXCEPT ![u][i] = [@ EXCEPT !.pc = "apply", !.res = res]]
    /\ UNCHANGED <<now, storeVars, pageVars, last, hist, calc>>

\* loadCourseData after the await: throw on a course or lessons error, else set the
\* three states; finally setLoading(false)
LoadApply(u, i) ==
    /\ i \in 1..Len(inflight[u])
    /\ inflight[u][i].pc = "apply"
    /\ LET res == inflight[u][i].res
       IN IF res.courseError \/ res.lessonsError
          THEN /\ error' = [error EXCEPT ![u] = LoadError]
               /\ UNCHANGED <<course, lessons, progress>>
          ELSE /\ course' = [course EXCEPT ![u] = res.courseData]
               /\ lessons' = [lessons EXCEPT ![u] = res.lessonsData]
               /\ progress' = [progress EXCEPT ![u] = res.progressData]
               /\ UNCHANGED error
    /\ loading' = [loading EXCEPT ![u] = FALSE]
    /\ inflight' = [inflight EXCEPT ![u] = RemoveAt(@, i)]
    /\ hist' = [hist EXCEPT ![u] = HistFinish(@)]
    /\ UNCHANGED <<now, storeVars, mounted, last, calc>>

\* toggleLessonCompletion up to its await: the request is built from the progress state
\* of the render the click happened in
ToggleStart(u, lessonId) ==
    /\ Rendered(u)
    /\ lessonId \in {lessons[u][k].id : k \in 1..Len(lessons[u])}
    /\ Len(inflight[u]) < MaxInFlight
    /\ now < MaxTime /\ now' = now + 1
    /\ LET isCompleted == isLessonCompleted(progress[u], lessonId)
           existingProgress == FindProgress(progress[u], lessonId)
           req == IF existingProgress # 0
                  THEN [op |-> "update", id |-> progress[u][existingProgress].id,
                        patch |-> [completed |-> ~isCompleted,
                                   completed_at |-> IF ~isCompleted THEN now ELSE NoTime,
                                   updated_at |-> now]]
                  ELSE [op |-> "insert", user_id |-> u, course_id |-> courseId(u),
                        lesson_id |-> lessonId, completed |-> TRUE, completed_at |-> now]
       IN /\ hist' = [hist EXCEPT ![u] = HistStart(u, "toggle", lessonId, isCompleted)]
          /\ inflight' = [inflight EXCEPT ![u] =
                 Append(@, [kind |-> "toggle", lesson |-> lessonId, pc |-> "write",
                            req |-> req, res |-> NoRes])]
    /\ UNCHANGED <<storeVars, pageVars, last, calc>>

\* markCourseCompleted up to its await; the button is disabled once the course is completed
MarkStart(u) ==
    /\ Rendered(u)
    /\ ~isCourseCompleted(progress[u])
    /\ Len(inflight[u]) < MaxInFlight
    /\ now < MaxTime /\ now' = now + 1
    /\ LET courseProgress == FindProgress(progress[u], NULL)
           req == IF courseProgress # 0
                  THEN [op |-> "update", id |-> progress[u][courseProgress].id,
                        patch |-> [completed |-> TRUE, completed_at |-> now,
                                   updated_at |-> now]]
                  ELSE [op |-> "insert", user_id |-> u, course_id |-> courseId(u),
                        lesson_id |-> NULL, completed |-> TRUE, completed_at |-> now]
       IN /\ hist' = [hist EXCEPT ![u] = HistStart(u, "mark", NULL, FALSE)]
          /\ inflight' = [inflight EXCEPT ![u] =
                 Append(@, [kind |-> "mark", lesson |-> NULL, pc |-> "write",
                            req |-> req, res |-> NoRes])]
    /\ UNCHANGED <<storeVars, pageVars, last, calc>>

\* the catch block re-fetching as the success path does
AfterWrite_refetch(tasks, i, ok) == [tasks EXCEPT ![i].pc = "fetch"]

\* after the awaited write: if (error) throw error, which the catch logs and the action
\* ends; else await loadCourseData()
AfterWrite(tasks, i, ok) ==
    IF ok THEN [tasks EXCEPT ![i].pc = "fetch"] ELSE RemoveAt(tasks, i)

\* the store serves the insert or update of a toggle or mark action; on an error the
\* action throws into its catch (console.error) and ends, else it awaits loadCourseData
ProgressWrite(u, i) ==
    /\ i \in 1..Len(inflight[u])
    /\ inflight[u][i].pc = "write"
    /\ \E fault \in BOOLEAN :
         LET req == inflight[u][i].req
             r == IF fault THEN [ok |-> FALSE, table |-> user_progress]
                  ELSE IF req.op = "insert"
                  THEN store_insert(u, new_progress_row(req.user_id, req.course_id,
                                        req.lesson_id, req.completed, req.completed_at))
                  ELSE store_update(u, req.id, req.patch)
         IN /\ Cardinality(r.table) <= MaxRows
            /\ user_progress' = r.table
            /\ last' = Response(req.op, u, r.ok, {}, {})
            /\ hist' = [hist EXCEPT ![u] = IF r.ok THEN HistWrite(u, TRUE)
                                           ELSE HistFinish(HistWrite(u, FALSE))]
            /\ inflight' = [inflight EXCEPT ![u] = AfterWrite(@, i, r.ok)]
    /\ UNCHANGED <<now, auth_users, profiles, pageVars, calc>>

PageNext ==
    \/ \E u \in PageUsers : Register(u, NULL)
    \/ \E u \in PageUsers : OpenCourse(u)
    \/ \E u \in PageUsers, i \in 1..MaxInFlight : LoadFetch(u, i)
    \/ \E u \in PageUsers, i \in 1..MaxInFlight : LoadApply(u, i)
    \/ \E u \in PageUsers, l \in LessonIds : ToggleStart(u, l)
    \/ \E u \in PageUsers : MarkStart(u)
    \/ \E u \in PageUsers, i \in 1..MaxInFlight : ProgressWrite(u, i)

Next == PageNext

Spec == Init /\ [][Next]_vars

\* the page of a user who only toggles lessons, MaxToggles times
TogglesNext ==
    \/ \E u \in PageUsers : Register(u, NULL)
    \/ \E u \in PageUsers : OpenCourse(u)
    \/ \E u \in PageUsers, i \in 1..MaxInFlight : LoadFetch(u, i)
    \/ \E u \in PageUsers, i \in 1..MaxInFlight : LoadApply(u, i)
    \/ \E u \in PageUsers, l \in LessonIds : now < MaxToggles /\ ToggleStart(u, l)
    \/ \E u \in PageUsers, i \in 1..MaxInFlight : ProgressWrite(u, i)

SpecToggles == Init /\ [][TogglesNext]_vars

\* the page of a user who clicks only when nothing is in flight: every action starts after
\* the one before it has ended, its re-fetch included
SerialNext ==
    \/ \E u \in PageUsers : Register(u, NULL)
    \/ \E u \in PageUsers : OpenCourse(u)
    \/ \E u \in PageUsers, i \in 1..MaxInFlight : LoadFetch(u, i)
    \/ \E u \in PageUsers, i \in 1..MaxInFlight : LoadApply(u, i)
    \/ \E u \in PageUsers, l \in LessonIds : inflight[u] = <<>> /\ ToggleStart(u, l)
    \/ \E u \in PageUsers : inflight[u] = <<>> /\ MarkStart(u)
    \/ \E u \in PageUsers, i \in 1..MaxInFlight : ProgressWrite(u, i)

SpecSerial == Init /\ [][SerialNext]_vars

(* ---------- requests of any caller straight to the store ---------- *)
\* supabase.from('user_progress').select('*') with caller's token
RawSelectProgress(caller) ==
    /\ last' = Response("select_progress", caller, TRUE, select_progress(caller), {})
    /\ UNCHANGED <<now, storeVars, pageVars, inflight, hist, calc>>

\* supabase.from('profiles').select('*') with caller's token
RawSelectProfiles(caller) ==
    /\ last' = Response("select_profiles", caller, TRUE, {}, select_profiles(caller))
    /\ UNCHANGED <<now, storeVars, pageVars, inflight, hist, calc>>

\* supabase.from('user_progress').insert({...}) with caller's token
RawInsertProgress(caller, user_id, lesson_id, completed) ==
    /\ Cardinality(user_progress) < MaxRows
    /\ LET row == new_progress_row(user_id, Course1, lesson_id, completed,
                                   IF completed THEN now ELSE NoTime)
           r == store_insert(caller, row)
       IN /\ user_progress' = r.table
          /\ last' = Response("insert", caller, r.ok, {}, {})
    /\ UNCHANGED <<now, auth_users, profiles, pageVars, inflight, hist, calc>>

\* the SET clauses a caller may send for a progress row
ProgressPatches ==
    {[completed |-> b, completed_at |-> IF b THEN now ELSE NoTime, updated_at |-> now] :
        b \in BOOLEAN}
    \cup {[user_id |-> v] : v \in Users}

\* supabase.from('user_progress').update(patch).eq('id', rid) with caller's token
RawUpdateProgress(caller, rid, patch) ==
    /\ LET r == store_update(caller, rid, patch)
       IN /\ user_progress' = r.table
          /\ last' = Response("update", caller, r.ok, {}, {})
    /\ UNCHANGED <<now, auth_users, profiles, pageVars, inflight, hist, calc>>

\* supabase.from('user_progress').delete().eq('id', rid) with caller's token
RawDeleteProgress(caller, rid) ==
    /\ LET r == store_delete(caller, rid)
       IN /\ user_progress' = r.table
          /\ last' = Response("delete", caller, r.ok, {}, {})
    /\ UNCHANGED <<now, auth_users, profiles, pageVars, inflight, hist, calc>>

\* supabase.from('profiles').insert({id, email, full_name}) with caller's token
RawInsertProfile(caller, id, name) ==
    /\ LET r == profile_insert(caller, [id |-> id, email |-> Emails[id], full_name |-> name])
       IN /\ profiles' = r.table
          /\ last' = Response("insert_profile", caller, r.ok, {}, {})
    /\ UNCHANGED <<now, auth_users, user_progress, pageVars, inflight, hist, calc>>

\* the SET clauses a caller may send for a profile
ProfilePatches ==
    {[full_name |-> "Bob"], [email |-> NULL]} \cup {[id |-> v] : v \in Users}

\* supabase.from('profiles').update(patch).eq('id', pid) with caller's token
RawUpdateProfile(caller, pid, patch) ==
    /\ LET r == profile_update(caller, pid, patch)
       IN /\ profiles' = r.table
          /\ last' = Response("update_profile", caller, r.ok, {}, {})
    /\ UNCHANGED <<now, auth_users, user_progress, pageVars, inflight, hist, calc>>

\* supabase.from('profiles').delete().eq('id', pid) with caller's token
RawDeleteProfile(caller, pid) ==
    /\ LET r == profile_delete(caller, pid)
       IN /\ profiles' = r.table
          /\ last' = Response("delete_profile", caller, r.ok, {}, {})
    /\ UNCHANGED <<now, auth_users, user_progress, pageVars, inflight, hist, calc>>

\* requests on progress records, by registered callers and by an anonymous one
RawNext ==
    \/ \E u \in Users : Register(u, NULL)
    \/ \E caller \in Callers : RawSelectProgress(caller)
    \/ \E caller \in Callers : RawSelectProfiles(caller)
    \/ \E caller \in Callers, u \in Users, l \in LessonIds \cup {NULL}, b \in BOOLEAN :
         RawInsertProgress(caller, u, l, b)
    \/ \E caller \in Callers, rid \in 1..MaxRows, patch \in ProgressPatches :
         RawUpdateProgress(caller, rid, patch)
    \/ \E caller \in Callers, rid \in 1..MaxRows : RawDeleteProgress(caller, rid)

SpecPolicy == Init /\ [][RawNext]_vars

\* sign-ups and requests on profiles, by registered callers and by an anonymous one
RawProfileNext ==
    \/ \E u \in Users, name \in Names : Register(u, name)
    \/ \E caller \in Callers : RawSelectProfiles(caller)
    \/ \E caller \in Callers, u \in Users, name \in Names : RawInsertProfile(caller, u, name)
    \/ \E caller \in Callers, u \in Users, patch \in ProfilePatches :
         RawUpdateProfile(caller, u, patch)
    \/ \E caller \in Callers, u \in Users : RawDeleteProfile(caller, u)

SpecProfiles == Init /\ [][RawProfileNext]_vars

(* ---------- access policies and provisioning: claims ---------- *)
\* C1: no SELECT issued with caller identity A returns a progress record whose account
\* reference is another account, nor the profile of another account
C1_ReadsOnlyOwn ==
    /\ \A r \in last.rows : r.user_id = last.caller
    /\ \A p \in last.profs : p.id = last.caller

\* a caller with rows of its own read user_progress while another account had rows too
C1_Witness ==
    /\ last.op = "select_progress"
    /\ last.rows # {}
    /\ \E r \in user_progress : r.user_id # last.caller

\* C2: an INSERT or UPDATE of a progress record takes effect only when the record's account
\* reference is the caller's, before and after; no DELETE removes a record
C2_WritesOnlyOwn ==
    [][/\ \A r \in user_progress : \E r2 \in user_progress' : r2.id = r.id
       /\ \A r \in user_progress : \A r2 \in user_progress' :
            (r2.id = r.id /\ r2 # r) =>
                /\ last'.op = "update"
                /\ last'.caller = r.user_id
                /\ r2.user_id = r.user_id
       /\ \A r2 \in user_progress' :
            (\A r \in user_progress : r.id # r2.id) =>
                /\ last'.op = "insert"
                /\ last'.caller = r2.user_id]_vars

\* an authenticated caller's update or delete has been served while the store held a
\* record of its own and a record of another account
C2_Witness ==
    /\ last.op \in {"update", "delete"}
    /\ last.caller # NULL
    /\ \E r \in user_progress : r.user_id # last.caller
    /\ \E r \in user_progress : r.user_id = last.caller

\* the profile the trigger is to create for an identity
RegisteredProfile(u) ==
    [id |-> u.id, email |-> u.email,
     full_name |-> IF u.full_name = NULL THEN "" ELSE u.full_name]

\* C7 as stated: every registered identity has exactly one profile row, with the identity's
\* identifier and email and the display name of the signup metadata ("" when absent), and
\* no profile exists without an identity
C7_ProfileAsRegistered ==
    /\ \A u \in auth_users : {p \in profiles : p.id = u.id} = {RegisteredProfile(u)}
    /\ \A p \in profiles : \E u \in auth_users : u.id = p.id

\* C7 amended: exactly one profile row per identity and none without an identity; the row
\* is created with the registration values, and afterwards only an UPDATE issued by its
\* owner changes it
C7_ProfilePerIdentity ==
    /\ [](/\ \A u \in auth_users : Cardinality({p \in profiles : p.id = u.id}) = 1
          /\ \A p \in profiles : \E u \in auth_users : u.id = p.id)
    /\ [][/\ \A u \in auth_users' \ auth_users :
               {p \in profiles' : p.id = u.id} = {RegisteredProfile(u)}
          /\ \A p \in profiles :
               p \in profiles' \/ (last'.op = "update_profile" /\ last'.caller = p.id)]_vars

\* an identity that signed up without metadata and one that signed up with a name have
\* their profiles, and an owner has updated its own
C7_Witness ==
    /\ \E u \in auth_users : u.full_name = NULL /\ RegisteredProfile(u) \in profiles
    /\ \E u \in auth_users : u.full_name = "Ann"
    /\ \E p \in profiles : p.full_name = "Bob"

(* ---------- calculateProgress on its own ---------- *)
\* a lessons array of n lessons in order
CalcLessons(n) ==
    [i \in 1..n |-> [id |-> ToString(i), course_id |-> Course1, order_number |-> i]]

CalcRow(i, lessonId, completed) ==
    [id |-> i, user_id |-> "A", course_id |-> Course1, lesson_id |-> lessonId,
     completed |-> completed, completed_at |-> IF completed THEN 0 ELSE NoTime,
     created_at |-> 0, updated_at |-> 0]

\* a progress array: a completed record for each of the first k lessons, then the extras:
\* a second completed record for lesson 1, a record with completed = false for the last
\* lesson, a course-level record
CalcProgress(n, k, extras) ==
    [i \in 1..k |-> CalcRow(i, ToString(i), TRUE)]
    \o (IF "dup" \in extras /\ k > 0 THEN <<CalcRow(k + 1, ToString(1), TRUE)>> ELSE <<>>)
    \o (IF "incomplete" \in extras /\ n > 0 THEN <<CalcRow(k + 2, ToString(n), FALSE)>> ELSE <<>>)
    \o (IF "course" \in extras THEN <<CalcRow(k + 3, NULL, TRUE)>> ELSE <<>>)

CalcInit ==
    /\ InitBase
    /\ \E n \in 0..MaxCalcLessons, extras \in SUBSET {"dup", "incomplete", "course"} :
         \E k \in 0..n :
           calc = [phase |-> "in", lessons |-> CalcLessons(n),
                   progress |-> CalcProgress(n, k, extras), result |-> 0]

\* the render computes progressPercentage = calculateProgress()
CalcStep ==
    /\ calc.phase = "in"
    /\ calc' = [calc EXCEPT !.phase = "out",
                            !.result = calculateProgress(calc.lessons, calc.progress)]
    /\ UNCHANGED <<now, storeVars, pageVars, inflight, last, hist>>

SpecCalc == CalcInit /\ [][CalcStep]_vars

\* lessons with a completed record, counted directly
CompletedCount(les, prog) ==
    Cardinality({i \in 1..Len(les) :
                   \E j \in 1..Len(prog) : prog[j].lesson_id = les[i].id /\ prog[j].completed})

\* C3: calculateProgress returns 0 for a course without lessons and otherwise
\* round(100 * n / total), n the lessons with a completed record; always in 0..100
C3_PercentageIsRounded ==
    calc.phase = "out" =>
        LET total == Len(calc.lessons)
            n == CompletedCount(calc.lessons, calc.progress)
            r == calc.result
        IN /\ r \in 0..100
           /\ total = 0 => r = 0
           /\ total > 0 => /\ 2 * r * total <= 200 * n + total
                           /\ 200 * n + total < 2 * (r + 1) * total

(* ---------- the CourseDetail page: claims ---------- *)
\* the caller's records for one (course, lesson-or-null) in a table
RecordsOf(table, u, lessonId) ==
    {r \in table : r.user_id = u /\ r.course_id = courseId(u) /\ r.lesson_id = lessonId}

\* this step is a click: toggleLessonCompletion or markCourseCompleted has issued a request
Started(u) == Len(inflight'[u]) = Len(inflight[u]) + 1

\* this step is the store serving the write of the i-th action in flight
WriteServed(u, i) ==
    /\ i \in 1..Len(inflight[u])
    /\ inflight[u][i].pc = "write"
    /\ \/ inflight'[u] = RemoveAt(inflight[u], i)
       \/ inflight'[u] = [inflight[u] EXCEPT ![i].pc = "fetch"]

\* this step ends an action that ran alone, from its click to the end of its re-fetch
SerializedEnd(u, kind) ==
    /\ hist[u].stage \in {1, 3}
    /\ hist[u].kind = kind
    /\ hist'[u].stage = hist[u].stage + 1

\* C4: after two consecutive toggles of a lesson, both written and re-fetched, the
\* lesson-completed flag is what it was before the first, and when it is false the caller's
\* records for the lesson have no completion timestamp
C4_ToggleTwiceRestores ==
    \A u \in PageUsers :
        (/\ hist[u].stage = 4
         /\ hist[u].kind = "toggle"
         /\ hist[u].w1 /\ hist[u].w2
         /\ error[u] = "") =>
            /\ isLessonCompleted(progress[u], hist[u].lesson) = hist[u].before
            /\ ~isLessonCompleted(progress[u], hist[u].lesson) =>
                   \A r \in RecordsOf(user_progress, u, hist[u].lesson) :
                       r.completed_at = NoTime

\* C5: a markCourseCompleted served when the caller already has a course-level record adds
\* no record with a null lesson reference, leaves the course-level record completed and
\* does not move its completion timestamp back
C5_MarkTwiceIdempotent ==
    [][\A u \in PageUsers, i \in 1..MaxInFlight :
          (/\ WriteServed(u, i)
           /\ inflight[u][i].kind = "mark"
           /\ last'.ok
           /\ RecordsOf(user_progress, u, NULL) # {}) =>
              /\ Cardinality(RecordsOf(user_progress', u, NULL))
                   = Cardinality(RecordsOf(user_progress, u, NULL))
              /\ \A r \in RecordsOf(user_progress, u, NULL) :
                   \E r2 \in RecordsOf(user_progress', u, NULL) :
                       r2.id = r.id /\ r2.completed /\ r2.completed_at >= r.completed_at]_vars

\* C6: a toggle's write leaves the records with a null lesson reference alone and a mark's
\* write those with a lesson; a toggle that ran alone neither sets nor clears the
\* course-completed flag, and a mark that ran alone leaves the percentage as it was
C6_SignalsIndependent ==
    [][\A u \in PageUsers :
          /\ \A i \in 1..MaxInFlight :
               WriteServed(u, i) =>
                   IF inflight[u][i].kind = "toggle"
                   THEN {r \in user_progress' : r.lesson_id = NULL}
                          = {r \in user_progress : r.lesson_id = NULL}
                   ELSE {r \in user_progress' : r.lesson_id # NULL}
                          = {r \in user_progress : r.lesson_id # NULL}
          /\ SerializedEnd(u, "toggle") =>
               isCourseCompleted(progress'[u]) = isCourseCompleted(progress[u])
          /\ SerializedEnd(u, "mark") =>
               calculateProgress(lessons'[u], progress'[u])
                 = calculateProgress(lessons[u], progress[u])]_vars

\* C8: the update a toggle issues for the record it found, when the client's copy of that
\* record is the stored one, writes the negation of the record's completed flag, the
\* current time or null as completion timestamp, and the current time as updated timestamp
C8_UpdateFlipsFoundRecord ==
    [][\A u \in PageUsers :
          LET t == inflight'[u][Len(inflight'[u])]
              k == FindProgress(progress[u], t.lesson)
          IN (Started(u) /\ t.kind = "toggle" /\ t.req.op = "update") =>
                /\ k # 0
                /\ t.req.id = progress[u][k].id
                /\ progress[u][k] \in user_progress =>
                     /\ t.req.patch.completed = ~progress[u][k].completed
                     /\ t.req.patch.completed_at
                          = IF t.req.patch.completed THEN now ELSE NoTime
                     /\ t.req.patch.updated_at = now]_vars

\* the inserts of toggles for one lesson that the store has accepted and whose re-fetch
\* has not completed
InsertedToggles(u, lessonId) ==
    {i \in 1..Len(inflight[u]) :
        /\ inflight[u][i].kind = "toggle"
        /\ inflight[u][i].req.op = "insert"
        /\ inflight[u][i].req.lesson_id = lessonId
        /\ inflight[u][i].pc # "write"}

\* C9: a toggle clicked while the client's view holds no record for the lesson takes the
\* insert branch; the store accepts every insert the page has pending, whatever records it
\* already holds; and two toggles of one lesson whose inserts were both accepted before
\* either re-fetch completed leave two records with the same (account, course, lesson)
C9_RacingInsertsBothStored ==
    /\ [](\A u \in PageUsers :
            /\ \A i \in 1..Len(inflight[u]) :
                 LET req == inflight[u][i].req
                 IN (inflight[u][i].pc = "write" /\ req.op = "insert") =>
                        insert_progress_ok(u, new_progress_row(req.user_id, req.course_id,
                                               req.lesson_id, req.completed, req.completed_at))
            /\ \A l \in LessonIds :
                 Cardinality(InsertedToggles(u, l)) >= 2 =>
                     Cardinality(RecordsOf(user_progress, u, l)) >= 2)
    /\ [][\A u \in PageUsers :
            LET t == inflight'[u][Len(inflight'[u])]
            IN (/\ Started(u)
                /\ t.kind = "toggle"
                /\ \A k \in 1..Len(progress[u]) : progress[u][k].lesson_id # t.lesson)
               => t.req.op = "insert"]_vars

\* two toggles of one lesson are in flight, both inserts accepted, neither re-fetch done,
\* and the store holds two records for the lesson
C9_Witness ==
    \E u \in PageUsers, l \in LessonIds :
        /\ Cardinality(InsertedToggles(u, l)) = 2
        /\ Cardinality(RecordsOf(user_progress, u, l)) = 2
        /\ progress[u] = <<>>

\* C10: when the store rejects the write of a toggle or mark action, the action ends there:
\* it leaves the list of actions in flight without a re-fetch or another request taking its
\* place, and the store's records and the page's state are as they were
C10_RejectedWriteEnds ==
    [][\A u \in PageUsers, i \in 1..MaxInFlight :
          (WriteServed(u, i) /\ ~last'.ok) =>
              /\ inflight'[u] = RemoveAt(inflight[u], i)
              /\ user_progress' = user_progress
              /\ pageVars' = pageVars]_vars

\* an update of a toggle or mark that ran alone was rejected, and the action has ended
C10_Witness ==
    \E u \in PageUsers :
        /\ last.op = "update" /\ ~last.ok
        /\ \/ hist[u].stage = 2 /\ ~hist[u].w1
           \/ hist[u].stage = 4 /\ ~hist[u].w2
        /\ inflight[u] = <<>>
        /\ user_progress # {}
        /\ Rendered(u)

\* this step is loadCourseData going on after its Promise.all, for the i-th action in flight
LoadApplied(u, i) ==
    /\ i \in 1..Len(inflight[u])
    /\ inflight[u][i].pc = "apply"
    /\ inflight'[u] = RemoveAt(inflight[u], i)

\* C11: a load in which the course, the lessons or the progress fetch failed ends with the
\* error message set, so that the page shows the message and not a progress set
C11_FetchFailureShown ==
    [][\A u \in PageUsers, i \in 1..MaxInFlight :
          LET res == inflight[u][i].res
          IN (/\ LoadApplied(u, i)
              /\ res.courseError \/ res.lessonsError \/ res.progressError) =>
                 error'[u] = LoadError]_vars

\* C12: an accepted write of a toggle or mark is followed by its re-fetch, and when the
\* re-fetch of the last action in flight has been read without an error, the progress set
\* of the page is the caller's records for the course as the store holds them
C12_ViewFollowsStore ==
    [][\A u \in PageUsers, i \in 1..MaxInFlight :
          /\ (WriteServed(u, i) /\ last'.ok) =>
                 inflight'[u] = [inflight[u] EXCEPT ![i].pc = "fetch"]
          /\ LET res == inflight[u][i].res
             IN (/\ LoadApplied(u, i)
                 /\ inflight[u][i].kind \in {"toggle", "mark"}
                 /\ ~(res.courseError \/ res.lessonsError \/ res.progressError)
                 /\ inflight'[u] = <<>>) =>
                    Range(progress'[u]) =
                        {r \in user_progress' : r.user_id = u /\ r.course_id = courseId(u)}]_vars

\* C13: with the caller's actions serialized, the store holds at most one record for each
\* (account, course, lesson-or-null)
C13_OneRecordPerTuple ==
    \A u \in PageUsers, l \in LessonIds \cup {NULL} :
        Cardinality(RecordsOf(user_progress, u, l)) <= 1

\* a record is well formed for caller u: completed exactly when it has a completion
\* timestamp, the account reference u and the course of the page
WellFormed(r, u) ==
    /\ r.completed <=> r.completed_at # NoTime
    /\ r.user_id = u
    /\ r.course_id = courseId(u)

\* C14: every record the store holds was written by the page's caller and is well formed,
\* and each write of a toggle or mark leaves the records it created or changed well formed
\* for the caller who issued it
C14_RecordsWellFormed ==
    /\ [](\A r \in user_progress : \E u \in PageUsers : WellFormed(r, u))
    /\ [][\A u \in PageUsers, i \in 1..MaxInFlight :
            WriteServed(u, i) =>
                \A r \in user_progress' \ user_progress : WellFormed(r, u)]_vars

\* after toggles that raced into duplicates: two records for one lesson, one completed with
\* its timestamp and one set back to incomplete with none
C14_Witness ==
    \E r1, r2 \in user_progress :
        /\ r1.id # r2.id
        /\ r1.lesson_id = r2.lesson_id /\ r1.lesson_id # NULL
        /\ r1.completed /\ r1.completed_at # NoTime
        /\ ~r2.completed /\ r2.completed_at = NoTime
====
